---- MODULE Spec2Model ----
(***************************************************************************)
(* MindStream: the bulk-ingest coordinator and job driver                  *)
(* (src/src/ingestor/data_cloud_bulk_ingest.py) and the CSV batch writer   *)
(* (src/src/mindstream_project/converter/json_to_csv_converter.py).        *)
(***************************************************************************)
EXTENDS Integers, Sequences, FiniteSets, TLC

(***************************************************************************)
(* Bounds of the model.                                                    *)
(***************************************************************************)
MaxFiles == 2
MaxWorkers == 2
MaxInputFiles == 2
MaxDocs == 4

Files == 1..MaxFiles

(***************************************************************************)
(* Values exchanged with the ingestion API.                                *)
(***************************************************************************)
\* Python's None, as the value of job_info.get('id') when the key is absent.
None == "<None>"
\* HTTP status codes the remote may answer with: two success codes, a 2xx
\* code that no step accepts, and an error.
StatusCodes == {200, 201, 204, 500}
\* Values of the "state" field of a status response (None: field absent).
JobStates == {"JobComplete", "Failed", "Aborted", "InProgress", None}
\* Exceptions the library calls of a driver can raise: requests.* errors,
\* open() errors, response.json() errors.  All derive from Exception.
ExceptionClasses == {"RequestException", "OSError", "ValueError"}
\* Ids the remote service hands out, one per created job and all distinct.  The
\* code only stores an id and passes it on, so which name a job gets does not
\* matter: the job created for the f-th file gets the f-th name.
JobIdNames == <<"job-1", "job-2", "job-3", "job-4", "job-5", "job-6">>
Ops == {"create", "upload", "close", "poll"}

VARIABLES
    csv_files,            \* execute_bulk_ingest's argument: the list of files
    max_concurrent_jobs,  \* self.max_concurrent_jobs
    callerPc,             \* position of execute_bulk_ingest
    submitted,            \* number of executor.submit calls made so far
    work_queue,           \* the executor's queue of work items not yet started
    collected,            \* futures that as_completed has yielded and handled
    pc,                   \* per file: position of its process_csv_file call
    job_id,               \* per file: the local job_id of process_csv_file
    ret,                  \* per file: return value of upload/close ("unset" before)
    resp,                 \* per file: the last HTTP response its driver received
    exc,                  \* per file: exception stored in its future ("none")
    invoked,              \* per file: how often each API method has been invoked
    sent                  \* per file: <<op, job id>> of every request with an id in its URL

ingestVars == <<csv_files, max_concurrent_jobs, callerPc, submitted, work_queue,
                collected, pc, job_id, ret, resp, exc, invoked, sent>>

(***************************************************************************)
(* State of JSONToCSVConverter.convert.                                    *)
(***************************************************************************)
VARIABLES
    max_csv_file_size,    \* self.max_csv_file_size
    cpc,                  \* position of convert
    csv_file_counter,     \* the local csv_file_counter
    csv_file,             \* number of the output file csv_file/csv_writer write to
    fs,                   \* output folder: fs[n] is data_<n>.csv
    nfiles,               \* entries of os.listdir taken by the for loop so far
    ndocs,                \* documents (obj) taken by the inner loop so far
    kept,                 \* rows handed to csv_writer.writerow and written, in order
    last                  \* the directory entry or document the loops handled last

convertVars == <<max_csv_file_size, cpc, csv_file_counter, csv_file, fs,
                 nfiles, ndocs, kept, last>>

(***************************************************************************)
(* State of one call of JSONToCSVConverter.clean_html.                     *)
(***************************************************************************)
VARIABLES
    arg,                  \* the content argument: its Python type and its repr
    hpc,                  \* position of clean_html
    hexc,                 \* the exception raised inside the try block ("none")
    hret                  \* the return value ("<unset>" before the return)

cleanVars == <<arg, hpc, hexc, hret>>

(***************************************************************************)
(* State of ConfigManager: the org config files and the clock.             *)
(***************************************************************************)
VARIABLES
    org_files,            \* orgs_dir: org directory name -> content of its config.json
    now,                  \* what datetime.now() returned last
    last_call             \* the last call of set_org_config: its arguments

configVars == <<org_files, now, last_call>>

(***************************************************************************)
(* State of clean_html applied to a string, and again to its own result.   *)
(***************************************************************************)
VARIABLES
    html,                 \* the string clean_html is first called with, as tokens
    spc,                  \* position of the running clean_html call
    work,                 \* content / soup / new_soup of the running call
    outs                  \* the return values of the calls made so far

sanitizeVars == <<html, spc, work, outs>>

vars == <<ingestVars, convertVars, cleanVars, configVars, sanitizeVars>>

\* What the steps of one component leave alone: the other components' state.
nonIngestVars == <<convertVars, cleanVars, configVars, sanitizeVars>>
nonConvertVars == <<ingestVars, cleanVars, configVars, sanitizeVars>>
nonCleanVars == <<ingestVars, convertVars, configVars, sanitizeVars>>
nonConfigVars == <<ingestVars, convertVars, cleanVars, sanitizeVars>>
nonSanitizeVars == <<ingestVars, convertVars, cleanVars, configVars>>

NoResp == [op |-> "none", status |-> 0, body |-> None]

\* Mutant: the test is "job_id is None", which the empty string passes.
TruthyUnlessNone(v) == v # None

\* Python truthiness of a job id: None and "" are falsy.
Truthy(v) == v # None /\ v # ""

Min(a, b) == IF a < b THEN a ELSE b

(***************************************************************************)
(* The four API methods: the return value computed from the response.      *)
(***************************************************************************)
create_bulk_ingest_job(status, body) ==
    IF status \in {200, 201} THEN body ELSE None

upload_data_to_job(status) == status \in {200, 201}

\* Mutant: close_job accepts 201 as the other two methods do.
close_jobLenient(status) == status \in {200, 201}

close_job(status) == status = 200

TerminalStates == {"JobComplete", "Failed", "Aborted"}

\* Mutant: the loop ends after one GET whatever the answer.
monitor_jobPollsOnce(status, state) == "returned"

\* Mutant: a status other than 200 is retried after the sleep.
monitor_jobRetriesOnError(status, state) ==
    IF status = 200
    THEN IF state \in {"JobComplete", "Failed", "Aborted"} THEN "returned" ELSE "sleep"
    ELSE "sleep"

\* Mutant: Aborted is not recognised as a terminal state.
monitor_jobWithoutAborted(status, state) ==
    IF status = 200
    THEN IF state \in {"JobComplete", "Failed"} THEN "returned" ELSE "sleep"
    ELSE "returned"

\* monitor_job's loop body: where the loop goes after one GET.
monitor_job(status, state) ==
    IF status = 200
    THEN IF state \in TerminalStates THEN "returned" ELSE "sleep"
    ELSE "returned"

(***************************************************************************)
(* process_csv_file: the step that follows each method's return value.     *)
(***************************************************************************)
\* Mutant: the "if not job_id: return" of line 81-82 is missing.
AfterCreateUnchecked(job) == "upload"

AfterCreate(job) == IF ~Truthy(job) THEN "returned" ELSE "upload"

\* Mutant: a failed upload is tried again.
AfterUploadRetry(ok) == IF ~ok THEN "upload" ELSE "close"

AfterUpload(ok) == IF ~ok THEN "returned" ELSE "close"

\* Mutant: the result of close_job is ignored and the poll always follows.
AfterCloseIgnored(ok) == "poll"

AfterClose(ok) == IF ~ok THEN "returned" ELSE "poll"

BoolStr(b) == IF b THEN "True" ELSE "False"

\* Mutant: the job id is kept in an attribute of the shared object, so every
\* driver addresses the job of the first file.
UrlJobOfFirst(f) == job_id[csv_files[1]]

\* The job id that f's driver puts into the URL of an upload, close or status
\* request: the job_id argument, which process_csv_file passes from its local
\* variable.
UrlJob(f) == job_id[f]

\* The counters stop at 2 ("more than once"): monitor_job may loop forever.
Count(f, op) == [invoked EXCEPT ![f][op] = Min(@ + 1, 2)]

Raise(f, op, e) ==
    /\ pc' = [pc EXCEPT ![f] = "raised"]
    /\ exc' = [exc EXCEPT ![f] = e]
    /\ invoked' = Count(f, op)

\* Line 80-82: job_id = self.create_bulk_ingest_job(); if not job_id: return
Create(f) ==
    /\ pc[f] = "create"
    /\ \/ \E e \in {"RequestException"} :
            /\ Raise(f, "create", e)
            /\ UNCHANGED <<job_id, resp>>
       \/ \E status \in StatusCodes :
          \E body \in IF status \in {200, 201}
                      THEN {None, "", JobIdNames[f]} ELSE {None} :
            /\ job_id' = [job_id EXCEPT ![f] = create_bulk_ingest_job(status, body)]
            /\ pc' = [pc EXCEPT ![f] = AfterCreate(job_id'[f])]
            /\ resp' = [resp EXCEPT ![f] =
                           [op |-> "create", status |-> status, body |-> body]]
            /\ invoked' = Count(f, "create")
            /\ UNCHANGED exc
    /\ UNCHANGED <<csv_files, max_concurrent_jobs, callerPc, submitted,
                   work_queue, collected, ret, sent,
                   nonIngestVars>>

\* Line 83-84: if not self.upload_data_to_job(job_id, csv_file_path): return
Upload(f) ==
    /\ pc[f] = "upload"
    /\ \/ \E e \in {"OSError"} :
            \* open(csv_file_path) fails: no request is sent
            /\ Raise(f, "upload", e)
            /\ UNCHANGED <<ret, resp, sent>>
       \/ \E e \in {"RequestException"} :
            /\ Raise(f, "upload", e)
            /\ sent' = [sent EXCEPT ![f] = @ \cup {<<"upload", UrlJob(f)>>}]
            /\ UNCHANGED <<ret, resp>>
       \/ \E status \in StatusCodes :
            /\ ret' = [ret EXCEPT ![f].upload = BoolStr(upload_data_to_job(status))]
            /\ pc' = [pc EXCEPT ![f] = AfterUpload(upload_data_to_job(status))]
            /\ resp' = [resp EXCEPT ![f] =
                           [op |-> "upload", status |-> status, body |-> None]]
            /\ sent' = [sent EXCEPT ![f] = @ \cup {<<"upload", UrlJob(f)>>}]
            /\ invoked' = Count(f, "upload")
            /\ UNCHANGED exc
    /\ UNCHANGED <<csv_files, max_concurrent_jobs, callerPc, submitted,
                   work_queue, collected, job_id,
                   nonIngestVars>>

\* Line 85-86: if not self.close_job(job_id): return
Close(f) ==
    /\ pc[f] = "close"
    /\ sent' = [sent EXCEPT ![f] = @ \cup {<<"close", UrlJob(f)>>}]
    /\ \/ \E e \in {"RequestException"} :
            /\ Raise(f, "close", e)
            /\ UNCHANGED <<ret, resp>>
       \/ \E status \in StatusCodes :
            /\ ret' = [ret EXCEPT ![f].close = BoolStr(close_job(status))]
            /\ pc' = [pc EXCEPT ![f] = AfterClose(close_job(status))]
            /\ resp' = [resp EXCEPT ![f] =
                           [op |-> "close", status |-> status, body |-> None]]
            /\ invoked' = Count(f, "close")
            /\ UNCHANGED exc
    /\ UNCHANGED <<csv_files, max_concurrent_jobs, callerPc, submitted,
                   work_queue, collected, job_id,
                   nonIngestVars>>

\* Line 87 and 65-77: one iteration of monitor_job's loop, up to its break
\* or its sleep.
Poll(f) ==
    /\ pc[f] = "poll"
    /\ sent' = [sent EXCEPT ![f] = @ \cup {<<"poll", UrlJob(f)>>}]
    /\ \/ \E e \in {"ValueError"} :
            \* response.json() fails on a body that is not JSON
            /\ Raise(f, "poll", e)
            /\ UNCHANGED resp
       \/ \E status \in StatusCodes :
          \E state \in IF status = 200 THEN JobStates ELSE {None} :
            /\ pc' = [pc EXCEPT ![f] = monitor_job(status, state)]
            /\ resp' = [resp EXCEPT ![f] =
                           [op |-> "poll", status |-> status, body |-> state]]
            /\ invoked' = Count(f, "poll")
            /\ UNCHANGED exc
    /\ UNCHANGED <<csv_files, max_concurrent_jobs, callerPc, submitted,
                   work_queue, collected, job_id, ret,
                   nonIngestVars>>

\* Line 74: time.sleep(10) is over; the loop issues the next GET.
Wake(f) ==
    /\ pc[f] = "sleep"
    /\ pc' = [pc EXCEPT ![f] = "poll"]
    /\ UNCHANGED <<csv_files, max_concurrent_jobs, callerPc, submitted, work_queue,
                   collected, job_id, ret, resp, exc, invoked, sent,
                   nonIngestVars>>

(***************************************************************************)
(* execute_bulk_ingest and its ThreadPoolExecutor.                         *)
(***************************************************************************)
\* Mutant: a thread is not handed back to the pool when its driver ends.
RunningPcsNeverReleased ==
    {"create", "upload", "close", "poll", "sleep", "returned", "raised"}

RunningPcs == {"create", "upload", "close", "poll", "sleep"}
Running == {f \in Files : pc[f] \in RunningPcs}
\* Mutant: a future counts as done as soon as its driver has started.
FinishedOrStarted ==
    {f \in Files : pc[f] \in {"returned", "raised", "create", "upload", "close",
                               "poll", "sleep"}}

Finished == {f \in Files : pc[f] \in {"returned", "raised"}}

\* Mutant: the pool runs one driver at a time whatever max_workers is.
WorkerAvailableSingleThread == Cardinality(Running) < 1

\* Mutant: the pool admits one driver more than max_workers.
WorkerAvailableOffByOne == Cardinality(Running) <= max_concurrent_jobs

\* ThreadPoolExecutor(max_workers=self.max_concurrent_jobs): a work item is
\* started only by one of at most max_workers threads, each running one item.
WorkerAvailable == Cardinality(Running) < max_concurrent_jobs

\* Mutant: the handler catches OSError only.
ExceptClauseOSErrorOnly(e) == e = "OSError"

\* except Exception as e: the classes the handler of line 96 catches.
ExceptClause(e) == e \in ExceptionClasses

\* Line 91: executor.submit(self.process_csv_file, csv_file_path), once per
\* entry of csv_files, in list order.
Submit ==
    /\ callerPc = "submit"
    /\ submitted < Len(csv_files)
    /\ submitted' = submitted + 1
    /\ work_queue' = Append(work_queue, csv_files[submitted + 1])
    /\ pc' = [pc EXCEPT ![csv_files[submitted + 1]] = "queued"]
    /\ UNCHANGED <<csv_files, max_concurrent_jobs, callerPc, collected, job_id,
                   ret, resp, exc, invoked, sent,
                   nonIngestVars>>

\* Line 91-92: the dict comprehension is complete; as_completed starts.
SubmitDone ==
    /\ callerPc = "submit"
    /\ submitted = Len(csv_files)
    /\ callerPc' = "collect"
    /\ UNCHANGED <<csv_files, max_concurrent_jobs, submitted, work_queue, collected,
                   pc, job_id, ret, resp, exc, invoked, sent,
                   nonIngestVars>>

\* A pool thread takes the oldest work item and calls process_csv_file.
StartDriver(f) ==
    /\ work_queue # << >>
    /\ f = Head(work_queue)
    /\ WorkerAvailable
    /\ work_queue' = Tail(work_queue)
    /\ pc' = [pc EXCEPT ![f] = "create"]
    /\ UNCHANGED <<csv_files, max_concurrent_jobs, callerPc, submitted, collected,
                   job_id, ret, resp, exc, invoked, sent,
                   nonIngestVars>>

\* Line 92-97: as_completed yields a finished future; future.result() returns
\* or re-raises the driver's exception, which the except clause catches.
Collect(f) ==
    /\ callerPc = "collect"
    /\ f \in Finished
    /\ f \notin collected
    /\ collected' = collected \cup {f}
    /\ callerPc' = IF pc[f] = "raised" /\ ~ExceptClause(exc[f])
                   THEN "raised" ELSE "collect"
    /\ UNCHANGED <<csv_files, max_concurrent_jobs, submitted, work_queue, pc,
                   job_id, ret, resp, exc, invoked, sent,
                   nonIngestVars>>

\* as_completed is exhausted; the with block joins the pool; the call returns.
Return ==
    /\ callerPc = "collect"
    /\ collected = {csv_files[i] : i \in 1..Len(csv_files)}
    /\ callerPc' = "returned"
    /\ UNCHANGED <<csv_files, max_concurrent_jobs, submitted, work_queue, collected,
                   pc, job_id, ret, resp, exc, invoked, sent,
                   nonIngestVars>>

\* No directory entry and no document has been handled yet.
NoEvent == [ev |-> "none"]

Unset == "<unset>"

\* clean_html has not been called on a string.
SanitizeIdle ==
    /\ html = << >>
    /\ spc = "idle"
    /\ work = << >>
    /\ outs = << >>

\* No org directory exists.
NoFiles == [d \in {} |-> {}]

NoCall == [op |-> "none"]

\* No ConfigManager method has been called.
ConfigIdle ==
    /\ org_files = NoFiles
    /\ now = 0
    /\ last_call = NoCall

\* clean_html has not been called.
CleanIdle ==
    /\ arg = [type |-> "NoneType", repr |-> "None"]
    /\ hpc = "idle"
    /\ hexc = "none"
    /\ hret = Unset

\* convert has not been called.
ConvertIdle ==
    /\ max_csv_file_size = 0
    /\ cpc = "idle"
    /\ csv_file_counter = 0
    /\ csv_file = 0
    /\ fs = << >>
    /\ nfiles = 0
    /\ ndocs = 0
    /\ kept = << >>
    /\ last = NoEvent

\* The driver-side state before execute_bulk_ingest has done anything.
IngestFresh ==
    /\ submitted = 0
    /\ work_queue = << >>
    /\ collected = {}
    /\ pc = [f \in Files |-> "unsubmitted"]
    /\ job_id = [f \in Files |-> None]
    /\ ret = [f \in Files |-> [upload |-> "unset", close |-> "unset"]]
    /\ resp = [f \in Files |-> NoResp]
    /\ exc = [f \in Files |-> "none"]
    /\ invoked = [f \in Files |-> [op \in Ops |-> 0]]
    /\ sent = [f \in Files |-> {}]

InitIngest ==
    /\ ConvertIdle
    /\ CleanIdle
    /\ ConfigIdle
    /\ SanitizeIdle
    /\ csv_files \in {[i \in 1..n |-> i] : n \in 0..MaxFiles}
    /\ max_concurrent_jobs \in 1..MaxWorkers
    /\ callerPc = "submit"
    /\ IngestFresh

NextIngest ==
    \/ Submit
    \/ SubmitDone
    \/ \E f \in Files : StartDriver(f)
    \/ \E f \in Files : Create(f)
    \/ \E f \in Files : Upload(f)
    \/ \E f \in Files : Close(f)
    \/ \E f \in Files : Poll(f)
    \/ \E f \in Files : Wake(f)
    \/ \E f \in Files : Collect(f)
    \/ Return

SpecIngest == InitIngest /\ [][NextIngest]_vars

\* Fair scheduling: the calling thread and every pool thread keep running,
\* so a step that stays possible is taken; sleep(10) ends and every request
\* is answered.  Nothing is assumed about what the remote answers.
FairIngest ==
    /\ WF_vars(Submit)
    /\ WF_vars(SubmitDone)
    /\ WF_vars(Return)
    /\ \A f \in Files :
          /\ WF_vars(StartDriver(f))
          /\ WF_vars(Create(f))
          /\ WF_vars(Upload(f))
          /\ WF_vars(Close(f))
          /\ WF_vars(Poll(f))
          /\ WF_vars(Wake(f))
          /\ WF_vars(Collect(f))

SpecIngestFair == InitIngest /\ [][NextIngest]_vars /\ FairIngest


(***************************************************************************)
(* Claims about the job driver and the coordinator.                        *)
(***************************************************************************)
Submitted == {csv_files[i] : i \in 1..submitted}

\* The create call of f's driver has come back without a usable job id.
CreateFailed(f) == invoked[f]["create"] > 0 /\ ~Truthy(job_id[f])

\* C1: a later lifecycle step is invoked only after every earlier step
\* succeeded: upload only with the job id create returned, close only after
\* a successful upload, poll only after a successful close; after a failed
\* create no upload, close or poll is invoked and no request names a job.
C1_ShortCircuit ==
    \A f \in Files :
        /\ invoked[f]["upload"] > 0 =>
              invoked[f]["create"] > 0 /\ Truthy(job_id[f])
        /\ invoked[f]["close"] > 0 =>
              invoked[f]["upload"] > 0 /\ ret[f].upload = "True"
        /\ invoked[f]["poll"] > 0 =>
              invoked[f]["close"] > 0 /\ ret[f].close = "True"
        /\ CreateFailed(f) =>
              /\ invoked[f]["upload"] = 0
              /\ invoked[f]["close"] = 0
              /\ invoked[f]["poll"] = 0
              /\ sent[f] = {}
              /\ pc[f] \in {"returned", "raised"}

\* One file's create was answered 500 and its driver returned at once, while
\* another file went through all four steps.
C1_Witness ==
    \E f, g \in Files :
        /\ resp[f].op = "create" /\ resp[f].status = 500
        /\ pc[f] = "returned" /\ invoked[f]["upload"] = 0
        /\ invoked[g]["poll"] > 0

\* A step of f's driver is possible.
DriverStep(f) == Create(f) \/ Upload(f) \/ Close(f) \/ Poll(f) \/ Wake(f)

Failed(f) ==
    \/ pc[f] = "raised"
    \/ pc[f] = "returned" /\ ~(resp[f].op = "poll" /\ resp[f].status = 200)

\* C2: a failed driver (failed step or exception) never stops another
\* file: no exception reaches the caller, a running driver can always take
\* its next step and the oldest waiting file can start as soon as the failed
\* ones are the only others, and the call returns only after every file's
\* driver has run to its own end.
C2_Isolation ==
    /\ callerPc # "raised"
    /\ \A g \in Files : pc[g] \in RunningPcs => ENABLED DriverStep(g)
    /\ \A g \in Files :
          (/\ work_queue # << >>
           /\ g = Head(work_queue)
           /\ \A f \in Submitted \ {g} : Failed(f) \/ pc[f] = "queued")
          => ENABLED StartDriver(g)
    /\ callerPc = "returned" =>
          \A f \in Submitted : invoked[f]["create"] > 0 /\ f \in Finished

\* The call has returned; one file's driver raised an exception and another
\* file's job was polled to JobComplete.
C2_Witness ==
    /\ callerPc = "returned"
    /\ \E f, g \in Files :
          /\ pc[f] = "raised"
          /\ pc[g] = "returned"
          /\ resp[g].op = "poll" /\ resp[g].body = "JobComplete"

\* f's driver issues a status GET in this step.
Get(f) == pc[f] = "poll" /\ pc'[f] # "poll"

TerminalSeen(f) ==
    resp[f].op = "poll" /\ resp[f].status = 200 /\ resp[f].body \in TerminalStates

\* C3: after the first status response whose state is JobComplete, Failed or
\* Aborted the loop is left and no further GET is issued; after a successful
\* response with any other state (or none) the driver sleeps, and the sleep
\* is followed by the next GET.
C3_TerminalRecognition ==
    [][\A f \in Files :
          /\ TerminalSeen(f) => ~Get(f) /\ pc[f] = "returned" /\ pc'[f] = "returned"
          /\ (Get(f) /\ pc'[f] # "raised") =>
                /\ resp'[f].op = "poll"
                /\ (resp'[f].status = 200 /\ resp'[f].body \in TerminalStates)
                      => pc'[f] = "returned"
                /\ (resp'[f].status = 200 /\ resp'[f].body \notin TerminalStates)
                      => pc'[f] = "sleep"
          /\ (pc[f] = "sleep" /\ pc'[f] # "sleep") => pc'[f] = "poll"
          /\ pc[f] = "poll" => ENABLED Poll(f)
      ]_vars

\* A job polled at least twice: a non-terminal answer first, then Aborted.
C3_Witness ==
    \E f \in Files :
        /\ invoked[f]["poll"] = 2
        /\ TerminalSeen(f) /\ resp[f].body = "Aborted"
        /\ pc[f] = "returned"

\* C4: at most max_concurrent_jobs drivers have started and not finished.
C4_BoundedConcurrency == Cardinality(Running) <= max_concurrent_jobs

\* Every worker is busy while a submitted file still waits for one.
C4_Witness ==
    /\ Cardinality(Running) = max_concurrent_jobs
    /\ work_queue # << >>

\* C5 as stated: once the close request has been answered, the driver does
\* not finish without having polled, whether close succeeded or failed.
C5_PollRegardlessOfClose ==
    \A f \in Files :
        (ret[f].close # "unset" /\ f \in Finished) => invoked[f]["poll"] > 0

\* C5 amended: after a successful upload and the close request, the poll is
\* performed exactly when close succeeded (status 200); a failed close ends
\* the file's processing without any poll.
C5_PollIffCloseSucceeded ==
    \A f \in Files :
        /\ ret[f].close = "True" =>
              /\ pc[f] \in {"poll", "sleep", "returned", "raised"}
              /\ pc[f] = "poll" => ENABLED Poll(f)
              /\ f \in Finished => invoked[f]["poll"] > 0
        /\ ret[f].close = "False" =>
              /\ resp[f].op = "close" /\ resp[f].status # 200
              /\ pc[f] = "returned"
              /\ invoked[f]["poll"] = 0
        /\ invoked[f]["poll"] > 0 => ret[f].close = "True"

\* One file's close was answered 500 and it was never polled; another file's
\* close was answered 200 and it was polled.
C5_Witness ==
    \E f, g \in Files :
        /\ ret[f].close = "False" /\ resp[f].status = 500
        /\ pc[f] = "returned" /\ invoked[f]["poll"] = 0
        /\ ret[g].close = "True" /\ invoked[g]["poll"] > 0


(***************************************************************************)
(* JSONToCSVConverter.convert: the CSV batch writer.                       *)
(***************************************************************************)
\* Bytes of the header line "content,id,last_updated,title,url\r\n".
HeaderSize == 35
\* Bytes of a data row, as csv_writer.writerow writes it (content and the
\* 20-byte timestamp included): a short and a long row.
RowSizes == {40, 70}
\* Values of max_csv_file_size: below the header, the header itself, exactly
\* header plus one short row, and sizes that take two or three rows.
MaxSizeChoices == {1, 35, 75, 100, 120}

\* The header line as an item of a file; data rows carry the number of
\* their document.
Header == [id |-> 0, bytes |-> HeaderSize, content |-> "content"]

\* What obj.get('content') can be: absent (None), the empty string, white
\* space only, markup that holds no text, markup with text.
RawContents == {None, "", " ", "<div></div>", "<p>text</p>"}

\* Further strings a document's content can be: bare text, a paragraph
\* inside a tag that is not allowed, an allowed tag without text, a script
\* element only, two paragraphs separated by a line break.
MoreContents ==
    {"text", "<div><p>text</p></div>", "<p></p>", "<script>x</script>",
     "<p>a</p>\n<p>b</p>"}

\* clean_html on these contents: "" for empty input (line 25-27); for white
\* space, for markup without text and for a script element, which line 31
\* removes, the body tag itself is decomposed (line 68-70) and
\* str(new_soup.body) is the string "None" (line 73); else the cleaned markup
\* inside the body tag, white space collapsed (line 76).
CleanedOf(content) ==
    IF content = None \/ content = "" THEN ""
    ELSE IF content \in {" ", "<div></div>", "<p></p>", "<script>x</script>"}
    THEN "None"
    ELSE IF content = "text" THEN "<body>text</body>"
    ELSE IF content = "<p>a</p>\n<p>b</p>" THEN "<body><p>a</p> <p>b</p></body>"
    ELSE "<body><p>text</p></body>"

\* Mutant: the comparison with the literal "None" is missing.
SkipRowEmptyOnly(cleaned_content) == cleaned_content = ""

\* Line 110: the row is skipped.
SkipRow(cleaned_content) == cleaned_content = "" \/ cleaned_content = "None"

\* The documents of a crawl file: an element that is no object (obj.get
\* raises), or an object with a content and a metadata that is an object
\* or not (metadata: null makes .get('title') raise).
Docs ==
    {[isdict |-> FALSE, content |-> None, metadata_ok |-> TRUE]} \cup
    [isdict : {TRUE}, content : RawContents, metadata_ok : BOOLEAN]

RECURSIVE SumBytes(_)
SumBytes(items) ==
    IF items = << >> THEN 0 ELSE Head(items).bytes + SumBytes(Tail(items))

\* open(path, "w"): creates data_<n>.csv, or truncates it when it exists.
open(fsys, n) ==
    IF n \in 1..Len(fsys)
    THEN [fsys EXCEPT ![n] = [isopen |-> TRUE, items |-> << >>, size |-> 0,
                              opens |-> @.opens + 1]]
    ELSE Append(fsys, [isopen |-> TRUE, items |-> << >>, size |-> 0, opens |-> 1])

\* Mutant: csv_file.close() is missing.
closeMissing(fsys, n) == fsys

\* csv_file.close()
close(fsys, n) == [fsys EXCEPT ![n].isopen = FALSE]

\* One line written through the file object; tell() is the byte count.
write(fsys, n, item) ==
    [fsys EXCEPT ![n].items = Append(@, item), ![n].size = @ + item.bytes]

\* csv_writer.writeheader()
writeheader(fsys, n) == write(fsys, n, Header)

\* Mutant: the size test is a strict comparison.
RolloverDueStrict(size) == size > max_csv_file_size

\* Mutant: the comparison is missing; any non-empty file rolls over.
RolloverDueNonEmpty(size) == size > 0

\* Line 129: csv_file.tell() >= self.max_csv_file_size
RolloverDue(size) == size >= max_csv_file_size

\* Mutant: csv_file_counter is incremented twice.
NextCounterSkipsOne(c) == c + 2

\* Mutant: csv_file_counter is not incremented.
NextCounterStuck(c) == c

\* Line 131: csv_file_counter += 1
NextCounter(c) == c + 1

\* Mutant: the new file gets no header.
RolloverWithoutHeader(fsys) ==
    open(close(fsys, csv_file), NextCounter(csv_file_counter))

\* Line 130-135: close the file, open the next one, write its header.
Rollover(fsys) ==
    writeheader(open(close(fsys, csv_file), NextCounter(csv_file_counter)),
                NextCounter(csv_file_counter))

\* Line 86-90: open data_1.csv and write its header.
Begin ==
    /\ cpc = "start"
    /\ csv_file_counter' = 1
    /\ csv_file' = 1
    /\ fs' = writeheader(open(fs, 1), 1)
    /\ cpc' = "opened"
    /\ UNCHANGED <<max_csv_file_size, nfiles, ndocs, kept, last, nonConvertVars>>

\* Line 92: os.listdir(self.json_folder) returns the listing.
ListDir ==
    /\ cpc = "opened"
    /\ cpc' = "files"
    /\ UNCHANGED <<max_csv_file_size, csv_file_counter, csv_file, fs, nfiles,
                   ndocs, kept, last, nonConvertVars>>

\* Line 92 raises (the folder does not exist); line 144-145 logs it and
\* convert ends.
ListDirFails ==
    /\ cpc = "opened"
    /\ cpc' = "done"
    /\ UNCHANGED <<max_csv_file_size, csv_file_counter, csv_file, fs, nfiles,
                   ndocs, kept, last, nonConvertVars>>

\* Line 139-140: the handler logs; the outer loop goes on.
AfterFileError == "files"

\* Line 92-102: the next directory entry.  "other": no .json suffix;
\* "badjson": json.load raises (caught at line 139); "notlist": skipped at
\* line 100-102; "list": the inner loop starts.
NextFile ==
    /\ cpc = "files"
    /\ nfiles < MaxInputFiles
    /\ nfiles' = nfiles + 1
    /\ \E kind \in {"other", "badjson", "notlist", "list"} :
          /\ cpc' = IF kind = "list" THEN "docs"
                    ELSE IF kind = "badjson" THEN AfterFileError
                    ELSE "files"
          /\ last' = [ev |-> "file", kind |-> kind]
    /\ UNCHANGED <<max_csv_file_size, csv_file_counter, csv_file, fs, ndocs,
                   kept, nonConvertVars>>

\* Line 104: chunk_data is exhausted.
EndDocs ==
    /\ cpc = "docs"
    /\ cpc' = "files"
    /\ UNCHANGED <<max_csv_file_size, csv_file_counter, csv_file, fs, nfiles,
                   ndocs, kept, last, nonConvertVars>>

\* What the inner loop body does with a document: "error" when line 106 or
\* line 115 raises (obj or its metadata is no object) or the write raises on
\* a closed file, "skipped" at line 110-112, else "row".
DocOutcome(doc) ==
    IF ~doc.isdict THEN "error"
    ELSE IF SkipRow(CleanedOf(doc.content)) THEN "skipped"
    ELSE IF ~doc.metadata_ok \/ ~fs[csv_file].isopen THEN "error"
    ELSE "row"

\* Mutant: the try of line 105 is missing; the exception ends the inner
\* loop and is caught by the handler of line 139.
AfterDocErrorEndsFile == "files"

\* Line 136-137: the handler logs; the inner loop goes on.
AfterDocError == "docs"

\* Line 104-137: one document.  It yields no row when obj is no object
\* (line 106 raises), when the cleaned content is skipped (line 110), when
\* metadata is no object (line 115 raises) or when the write raises because
\* csv_file is closed; else the row is written and the size test follows.
ProcessDoc ==
    /\ cpc = "docs"
    /\ ndocs < MaxDocs
    /\ ndocs' = ndocs + 1
    /\ \E doc \in Docs, bytes \in RowSizes :
          /\ last' = [ev |-> "doc", doc |-> doc, outcome |-> DocOutcome(doc)]
          /\ cpc' = IF DocOutcome(doc) = "error" THEN AfterDocError ELSE "docs"
          /\ IF DocOutcome(doc) = "row"
             THEN LET row == [id |-> ndocs + 1, bytes |-> bytes,
                              content |-> CleanedOf(doc.content)]
                      written == write(fs, csv_file, row)
                  IN  /\ kept' = Append(kept, row)
                      /\ IF RolloverDue(written[csv_file].size)
                         THEN /\ fs' = Rollover(written)
                              /\ csv_file_counter' = NextCounter(csv_file_counter)
                              /\ csv_file' = NextCounter(csv_file_counter)
                         ELSE /\ fs' = written
                              /\ UNCHANGED <<csv_file_counter, csv_file>>
             ELSE UNCHANGED <<fs, kept, csv_file_counter, csv_file>>
    /\ UNCHANGED <<max_csv_file_size, nfiles, nonConvertVars>>

\* Line 142-143: the listing is exhausted; the open file is closed.
Finish ==
    /\ cpc = "files"
    /\ fs' = close(fs, csv_file)
    /\ cpc' = "done"
    /\ UNCHANGED <<max_csv_file_size, csv_file_counter, csv_file, nfiles, ndocs,
                   kept, last, nonConvertVars>>

\* execute_bulk_ingest has not been called.
IngestIdle ==
    /\ csv_files = << >>
    /\ max_concurrent_jobs = 1
    /\ callerPc = "idle"
    /\ IngestFresh

\* convert is called on an output folder that holds no data_<n>.csv yet.
InitConvert ==
    /\ IngestIdle
    /\ CleanIdle
    /\ ConfigIdle
    /\ SanitizeIdle
    /\ max_csv_file_size \in MaxSizeChoices
    /\ cpc = "start"
    /\ csv_file_counter = 0
    /\ csv_file = 0
    /\ fs = << >>
    /\ nfiles = 0
    /\ ndocs = 0
    /\ kept = << >>
    /\ last = NoEvent

NextConvert ==
    \/ Begin
    \/ ListDir
    \/ ListDirFails
    \/ NextFile
    \/ EndDocs
    \/ ProcessDoc
    \/ Finish

SpecConvert == InitConvert /\ [][NextConvert]_vars


(***************************************************************************)
(* Claims about the CSV batch writer.                                      *)
(***************************************************************************)
IsRow(item) == item.id # 0

DataRows(n) == SelectSeq(fs[n].items, IsRow)

PrefixSize(n, k) == SumBytes(SubSeq(fs[n].items, 1, k))

KeptIndex(id) == CHOOSE i \in 1..Len(kept) : kept[i].id = id

\* C6: a row write that leaves a file at or above max_csv_file_size is the
\* last write to it: the file is closed, the next-numbered file exists with
\* its header first, and the next kept row is the first data row of that
\* file.
C6_SealedAtCeiling ==
    \A n \in 1..Len(fs) :
        /\ fs[n].size = SumBytes(fs[n].items)
        /\ \A k \in 1..Len(fs[n].items) :
              (IsRow(fs[n].items[k]) /\ PrefixSize(n, k) >= max_csv_file_size) =>
                 /\ k = Len(fs[n].items)
                 /\ ~fs[n].isopen
                 /\ n < csv_file_counter
                 /\ n + 1 \in 1..Len(fs)
                 /\ fs[n + 1].items # << >>
                 /\ Head(fs[n + 1].items) = Header
                 /\ DataRows(n + 1) # << >> =>
                       /\ fs[n + 1].items[2] = Head(DataRows(n + 1))
                       /\ KeptIndex(Head(DataRows(n + 1)).id)
                             = KeptIndex(fs[n].items[k].id) + 1

\* A file was sealed by its second data row and the next file has received
\* the following kept row.
C6_Witness ==
    \E n \in 1..Len(fs) :
        /\ Len(DataRows(n)) >= 2
        /\ fs[n].size >= max_csv_file_size
        /\ ~fs[n].isopen
        /\ n + 1 \in 1..Len(fs)
        /\ DataRows(n + 1) # << >>

\* C7 as stated: no file is ever larger than max_csv_file_size.
C7_SizeBounded == \A n \in 1..Len(fs) : fs[n].size <= max_csv_file_size

\* C7 amended: a file exceeds max_csv_file_size by at most its last row.
\* When the header is below max_csv_file_size, a file without rows is below
\* it and a file with rows was below it before its last row was written;
\* when the header alone reaches max_csv_file_size, a file holds at most one
\* row.
C7_SizeBoundedUpToLastRow ==
    \A n \in 1..Len(fs) :
        LET rows == DataRows(n) IN
        IF HeaderSize < max_csv_file_size
        THEN /\ rows = << >> => fs[n].size < max_csv_file_size
             /\ rows # << >> =>
                   fs[n].size - rows[Len(rows)].bytes < max_csv_file_size
        ELSE Len(rows) <= 1

\* A closed file of at least two rows that is larger than max_csv_file_size.
C7_Witness ==
    \E n \in 1..Len(fs) :
        /\ ~fs[n].isopen
        /\ Len(DataRows(n)) >= 2
        /\ fs[n].size > max_csv_file_size

RECURSIVE RowsUpTo(_)
RowsUpTo(n) == IF n = 0 THEN << >> ELSE RowsUpTo(n - 1) \o DataRows(n)

\* C8: the data rows of data_1.csv, data_2.csv, ... in file order are
\* exactly the kept documents in input order, each once.
C8_RowsPreserved ==
    /\ RowsUpTo(Len(fs)) = kept
    /\ \A i, j \in 1..Len(kept) : i < j => kept[i].id < kept[j].id

\* convert is done after two rollovers, with documents skipped on the way.
C8_Witness ==
    /\ cpc = "done"
    /\ Len(fs) >= 3
    /\ Len(kept) >= 3
    /\ Len(kept) < ndocs
    /\ DataRows(Len(fs)) # << >>

\* C9: a file is closed only after a row write has brought it to or above
\* max_csv_file_size, or at the end of the input; every file but the last
\* is closed, holds a row and is at or above max_csv_file_size; a file that
\* holds only its header is the last one.
C9_ClosedAtCeilingOrEnd ==
    \A n \in 1..Len(fs) :
        /\ ~fs[n].isopen =>
              \/ /\ DataRows(n) # << >>
                 /\ IsRow(fs[n].items[Len(fs[n].items)])
                 /\ fs[n].size >= max_csv_file_size
              \/ n = Len(fs) /\ cpc = "done"
        /\ n < Len(fs) =>
              /\ ~fs[n].isopen
              /\ DataRows(n) # << >>
              /\ fs[n].size >= max_csv_file_size
        /\ DataRows(n) = << >> => n = Len(fs)

\* The header alone is at or above max_csv_file_size, a rollover has opened
\* data_2.csv, documents were skipped since, and data_2.csv is still open
\* with its header only.
C9_Witness ==
    /\ max_csv_file_size <= HeaderSize
    /\ Len(fs) = 2
    /\ fs[2].isopen
    /\ fs[2].items = <<Header>>
    /\ ndocs >= 2
    /\ cpc = "docs"

\* C10: every file starts with the header row and holds it exactly once.
C10_HeaderFirstOnce ==
    /\ cpc # "start" => Len(fs) >= 1
    /\ \A n \in 1..Len(fs) :
          /\ fs[n].items # << >>
          /\ Head(fs[n].items) = Header
          /\ \A k \in 2..Len(fs[n].items) : IsRow(fs[n].items[k])

\* The first file and a file opened by a rollover both hold data rows.
C10_Witness ==
    /\ Len(fs) >= 2
    /\ DataRows(1) # << >>
    /\ DataRows(2) # << >>


\* All data rows of all output files.
AllRows == RowsUpTo(Len(fs))

\* C11: a row is written only for a document whose cleaned content is not
\* empty and not the literal "None"; a document whose content is absent,
\* empty or white space only yields no row, is skipped without an error and
\* the loop goes on with the next document.
C11_RowOnlyForContent ==
    [][/\ \A i \in 1..Len(AllRows) : AllRows[i].content \notin {"", " ", "None"}
       /\ ndocs' # ndocs =>
            /\ last'.ev = "doc"
            /\ kept' # kept =>
                  /\ last'.doc.isdict
                  /\ last'.doc.content \notin {None, "", " "}
                  /\ kept'[Len(kept')].content \notin {"", " ", "None"}
            /\ (last'.doc.isdict /\ last'.doc.content \in {None, "", " "}) =>
                  /\ kept' = kept
                  /\ fs' = fs
                  /\ last'.outcome = "skipped"
                  /\ cpc' = "docs"
      ]_vars

\* A document with white-space content has just been skipped, after a row
\* was written for an earlier document.
C11_Witness ==
    /\ last.ev = "doc"
    /\ last.doc.isdict
    /\ last.doc.content = " "
    /\ last.outcome = "skipped"
    /\ kept # << >>
    /\ cpc = "docs"

\* C12: an error in one document or one input file changes no output file,
\* loses no written row and leaves convert in the loop it was in (the inner
\* loop for a document, the outer loop for a file); convert never raises.
C12_ErrorsConfined ==
    [][/\ cpc' # "raised"
       /\ (ndocs' # ndocs /\ last'.outcome = "error") =>
             /\ fs' = fs
             /\ kept' = kept
             /\ cpc' = "docs"
             /\ nfiles' = nfiles
       /\ (nfiles' # nfiles /\ last'.kind = "badjson") =>
             /\ fs' = fs
             /\ kept' = kept
             /\ cpc' = "files"
      ]_vars

\* A document with text but a metadata that is no object has just raised,
\* after a row was written for an earlier document.
C12_Witness ==
    /\ last.ev = "doc"
    /\ last.outcome = "error"
    /\ last.doc.isdict
    /\ last.doc.content = "<p>text</p>"
    /\ ~last.doc.metadata_ok
    /\ kept # << >>
    /\ cpc = "docs"

\* C13: when convert has finished, on whatever path, no output file is
\* open.
C13_ClosedOnEveryPath ==
    cpc = "done" => \A n \in 1..Len(fs) : ~fs[n].isopen

\* C14: the files are data_1.csv .. data_<csv_file_counter>.csv, each
\* opened once; a step creates at most the next-numbered file and changes no
\* closed file.
C14_NumberedNeverReopened ==
    [][/\ cpc' # "start" =>
             /\ csv_file_counter' = Len(fs')
             /\ csv_file' = Len(fs')
       /\ \A n \in 1..Len(fs') : fs'[n].opens = 1
       /\ Len(fs') \in {Len(fs), Len(fs) + 1}
       /\ \A n \in 1..Len(fs) :
             ~fs[n].isopen => (n \in 1..Len(fs') /\ fs'[n] = fs[n])
      ]_vars

\* Three files exist; the first two are closed and the third is written to.
C14_Witness ==
    /\ Len(fs) = 3
    /\ ~fs[1].isopen
    /\ ~fs[2].isopen
    /\ fs[3].isopen
    /\ DataRows(3) # << >>


(***************************************************************************)
(* Further claims about the job driver and the coordinator.                *)
(***************************************************************************)
\* The entries of csv_files.
Entries == {csv_files[i] : i \in 1..Len(csv_files)}

\* The job ids f's driver has put into the URL of a request of kind op.
JobsOf(f, op) == {s[2] : s \in {t \in sent[f] : t[1] = op}}

\* The job ids f's driver has addressed in any request.
JobsAddressed(f) == {s[2] : s \in sent[f]}

\* How often f occurs in the executor's queue.
Queued(f) == Cardinality({i \in 1..Len(work_queue) : work_queue[i] = f})

\* C15: each entry of csv_files gets one driver invocation (one work item,
\* started once, and the submit phase leaves no entry out); create, upload
\* and close are each invoked at most once per file; a file's data goes to one
\* job and no job is addressed for two files.
C15_OnceEach ==
    /\ \A f \in Files :
          /\ invoked[f]["create"] <= 1
          /\ invoked[f]["upload"] <= 1
          /\ invoked[f]["close"] <= 1
          /\ pc[f] # "unsubmitted" <=> f \in Submitted
          /\ Queued(f) = IF pc[f] = "queued" THEN 1 ELSE 0
          /\ Cardinality(JobsOf(f, "upload")) <= 1
    /\ Submitted \subseteq Entries
    /\ callerPc # "submit" => Submitted = Entries
    /\ \A f, g \in Files : f # g => JobsOf(f, "upload") \cap JobsAddressed(g) = {}

\* Both files have been uploaded and closed, each once, and the call has
\* returned.
C15_Witness ==
    /\ callerPc = "returned"
    /\ Len(csv_files) = 2
    /\ \A f \in Entries :
          /\ invoked[f]["create"] = 1
          /\ invoked[f]["upload"] = 1
          /\ invoked[f]["close"] = 1
          /\ JobsOf(f, "upload") # {}

\* The last answer f's driver received is a successful, non-terminal status
\* answer, and the driver has not raised since.
StillPolling(f) ==
    /\ resp[f].op = "poll"
    /\ resp[f].status = 200
    /\ resp[f].body \notin TerminalStates
    /\ exc[f] = "none"

\* C16: while a job's status requests are answered successfully with a
\* non-terminal state, its driver stays in the polling loop however many
\* polls were made: it has not finished, it holds its pool thread (when all
\* threads are held, no queued file starts), its future is not collected and
\* execute_bulk_ingest has not returned.
C16_PolledForever ==
    \A f \in Files :
        StillPolling(f) =>
            /\ pc[f] \in {"poll", "sleep"}
            /\ f \in Running
            /\ f \notin Finished
            /\ f \notin collected
            /\ callerPc # "returned"
            /\ ~ENABLED Return
            /\ Cardinality(Running) = max_concurrent_jobs =>
                  \A g \in Files : ~ENABLED StartDriver(g)

\* A job has been polled more than once and is about to be polled again,
\* while the next file waits in the queue for the only thread.
C16_Witness ==
    \E f, g \in Files :
        /\ StillPolling(f)
        /\ invoked[f]["poll"] = 2
        /\ pc[f] = "sleep"
        /\ max_concurrent_jobs = 1
        /\ pc[g] = "queued"
        /\ callerPc = "collect"

\* The last answer f's driver received is a status answer outside 2xx.
PollFailed(f) == resp[f].op = "poll" /\ resp[f].status \notin 200..299

\* C17: a status request answered with a failure ends the loop at once:
\* the driver has returned without raising, and from then on it sends no
\* request and invokes no method.
C17_PollFailureEndsLoop ==
    [][\A f \in Files :
          /\ PollFailed(f)' =>
                /\ pc'[f] = "returned"
                /\ exc'[f] = "none"
          /\ PollFailed(f) =>
                /\ PollFailed(f)'
                /\ sent'[f] = sent[f]
                /\ invoked'[f] = invoked[f]
      ]_vars

\* A status request was answered 500 after an earlier non-terminal answer;
\* the driver returned and its future was collected without an exception.
C17_Witness ==
    \E f \in Files :
        /\ PollFailed(f)
        /\ invoked[f]["poll"] = 2
        /\ pc[f] = "returned"
        /\ f \in collected
        /\ callerPc = "returned"

\* C18: with distinct remote ids, every upload, close and status request of a
\* file's driver addresses the job id its own create call returned; no job id
\* is addressed by the drivers of two files and no file is uploaded to two
\* jobs.
C18_OwnJobOnly ==
    /\ \A f \in Files :
          /\ \A s \in sent[f] :
                /\ resp[f].op # "none"
                /\ s[2] = job_id[f]
                /\ s[2] = JobIdNames[f]
          /\ Cardinality(JobsOf(f, "upload")) <= 1
    /\ \A f, g \in Files : f # g => JobsAddressed(f) \cap JobsAddressed(g) = {}

\* Two drivers are in their polling loops at the same time, each having
\* uploaded to, closed and polled its own job.
C18_Witness ==
    /\ \A f \in Files :
          /\ pc[f] \in {"poll", "sleep"}
          /\ sent[f] = {<<"upload", JobIdNames[f]>>, <<"close", JobIdNames[f]>>,
                        <<"poll", JobIdNames[f]>>}
    /\ Cardinality(Running) = 2

\* C19: create and upload succeed exactly on status 200 or 201, close exactly
\* on status 200; after any other status the step has failed, the driver has
\* returned and no later step was invoked.
C19_SuccessCodes ==
    \A f \in Files :
        /\ resp[f].op = "create" =>
              /\ Truthy(job_id[f]) => resp[f].status \in {200, 201}
              /\ resp[f].status \in {200, 201} => job_id[f] = resp[f].body
              /\ resp[f].status \notin {200, 201} =>
                    /\ job_id[f] = None
                    /\ pc[f] = "returned"
                    /\ invoked[f]["upload"] = 0
                    /\ invoked[f]["close"] = 0
                    /\ invoked[f]["poll"] = 0
        /\ resp[f].op = "upload" =>
              /\ ret[f].upload = "True" <=> resp[f].status \in {200, 201}
              /\ resp[f].status \in {200, 201} => pc[f] \in {"close", "raised"}
              /\ resp[f].status \notin {200, 201} =>
                    /\ pc[f] = "returned"
                    /\ invoked[f]["close"] = 0
                    /\ invoked[f]["poll"] = 0
        /\ resp[f].op = "close" =>
              /\ ret[f].close = "True" <=> resp[f].status = 200
              /\ resp[f].status = 200 => pc[f] \in {"poll", "raised"}
              /\ resp[f].status # 200 =>
                    /\ pc[f] = "returned"
                    /\ invoked[f]["poll"] = 0

\* One close was answered 201 and ended its driver without a poll; the other
\* file's create was answered 201 with an id and its upload 201, and its driver
\* went on to close.
C19_Witness ==
    \E f, g \in Files :
        /\ resp[f].op = "close" /\ resp[f].status = 201
        /\ pc[f] = "returned" /\ invoked[f]["poll"] = 0
        /\ resp[g].op = "upload" /\ resp[g].status = 201
        /\ pc[g] = "close"


(***************************************************************************)
(* JSONToCSVConverter.clean_html: its control flow.                        *)
(***************************************************************************)
\* Values obj.get('content') can hand to clean_html: any JSON value.  Each
\* is its Python type and its repr.
CleanArgs ==
    {[type |-> "NoneType", repr |-> "None"]}
    \cup [type : {"str"}, repr : (RawContents \ {None}) \cup MoreContents]
    \cup [type : {"int"}, repr : {"0", "5"}]
    \cup [type : {"bool"}, repr : {"False", "True"}]
    \cup [type : {"list"}, repr : {"[]", "['<p>text</p>']"}]
    \cup [type : {"dict"}, repr : {"{}", "{'html': '<p>text</p>'}"}]

\* Python truthiness, as "if not content" tests it.
Falsy(a) ==
    \/ a.type = "NoneType"
    \/ a.repr \in {"", "0", "False", "[]", "{}"}

\* Exceptions the statements of the try block can raise: re.sub on a value
\* that is no string (TypeError), the parser rejecting the markup
\* (ParserRejectedMarkup), the recursion of process_node or of str() on deep
\* nesting (RecursionError), the access to a tag that decompose() has already
\* emptied (AttributeError).  All derive from Exception.
CleanExceptions ==
    {"TypeError", "ParserRejectedMarkup", "RecursionError", "AttributeError"}

\* Mutant: the handler catches TypeError only.
CleanExceptClauseTypeErrorOnly(e) == e = "TypeError"

\* except Exception as e (line 80): the classes the handler catches.
CleanExceptClause(e) == e \in CleanExceptions

\* Line 25-27: if not content: return ""
Enter ==
    /\ hpc = "call"
    /\ IF Falsy(arg)
       THEN hpc' = "returned" /\ hret' = ""
       ELSE hpc' = "resub" /\ hret' = hret
    /\ UNCHANGED <<arg, hexc, nonCleanVars>>

\* A statement of the try block raises e.
CleanRaise(e) ==
    /\ hexc' = e
    /\ hpc' = "except"
    /\ UNCHANGED <<arg, hret, nonCleanVars>>

\* A statement of the try block completes; the next one is at position next.
CleanGoto(next) ==
    /\ hpc' = next
    /\ UNCHANGED <<arg, hexc, hret, nonCleanVars>>

\* Line 31: re.sub(...) raises TypeError unless content is a string.
ReSub ==
    /\ hpc = "resub"
    /\ IF arg.type = "str" THEN CleanGoto("parse") ELSE CleanRaise("TypeError")

\* Line 34: BeautifulSoup(content, "html.parser")
Parse ==
    /\ hpc = "parse"
    /\ \/ CleanGoto("walk")
       \/ CleanRaise("ParserRejectedMarkup")

\* Line 41-65: new_soup and process_node(start_node, new_body)
Walk ==
    /\ hpc = "walk"
    /\ \/ CleanGoto("prune")
       \/ CleanRaise("RecursionError")

\* Line 68-70: the loop that decomposes the tags without text.
Prune ==
    /\ hpc = "prune"
    /\ \/ CleanGoto("serialize")
       \/ CleanRaise("AttributeError")

\* Line 73-78: str(new_soup.body), the white-space clean-up and the return.
Serialize ==
    /\ hpc = "serialize"
    /\ \/ /\ hpc' = "returned"
          /\ hret' = CleanedOf(arg.repr)
          /\ UNCHANGED <<arg, hexc, nonCleanVars>>
       \/ CleanRaise("RecursionError")

\* Line 80-82: the handler logs and returns ""; an exception it does not
\* catch leaves clean_html.
Except ==
    /\ hpc = "except"
    /\ IF CleanExceptClause(hexc)
       THEN hpc' = "returned" /\ hret' = ""
       ELSE hpc' = "raised" /\ hret' = hret
    /\ UNCHANGED <<arg, hexc, nonCleanVars>>

InitClean ==
    /\ IngestIdle
    /\ ConvertIdle
    /\ ConfigIdle
    /\ SanitizeIdle
    /\ arg \in CleanArgs
    /\ hpc = "call"
    /\ hexc = "none"
    /\ hret = Unset

NextClean ==
    \/ Enter
    \/ ReSub
    \/ Parse
    \/ Walk
    \/ Prune
    \/ Serialize
    \/ Except

SpecClean == InitClean /\ [][NextClean]_vars

\* C20: clean_html never raises; when its input is None (a null or missing
\* content) or the empty string, or when a statement of its try block has
\* failed, it returns the empty string.
C20_EmptyOnNullOrFailure ==
    /\ hpc # "raised"
    /\ hpc = "returned" =>
          /\ hret # Unset
          /\ (arg.type = "NoneType" \/ (arg.type = "str" /\ arg.repr = "")) =>
                hret = "" /\ hexc = "none"
          /\ hexc # "none" => hret = ""
          /\ arg.type # "str" => hret = ""

\* The recursion failed on a string with markup and text, and clean_html
\* returned the empty string.
C20_Witness ==
    /\ hpc = "returned"
    /\ arg = [type |-> "str", repr |-> "<p>text</p>"]
    /\ hexc = "RecursionError"
    /\ hret = ""


\* C26: in the state where execute_bulk_ingest has returned, every entry of
\* csv_files was submitted, the executor's queue is empty and the driver of
\* every submitted file has returned or raised: none is running and none
\* waits to start.
C26_ReturnsAfterAllDrivers ==
    callerPc = "returned" =>
        /\ submitted = Len(csv_files)
        /\ work_queue = << >>
        /\ \A i \in 1..Len(csv_files) :
              /\ pc[csv_files[i]] \in {"returned", "raised"}
              /\ pc[csv_files[i]] \notin {"queued", "create", "upload", "close",
                                          "poll", "sleep"}
              /\ csv_files[i] \in collected

\* The call has returned after all files went through one thread, one
\* driver having ended by an exception and one after polling.
C26_Witness ==
    /\ callerPc = "returned"
    /\ Len(csv_files) = MaxFiles
    /\ max_concurrent_jobs = 1
    /\ \E f, g \in Files :
          /\ pc[f] = "raised"
          /\ pc[g] = "returned" /\ invoked[g]["poll"] > 0

\* The create call of f's driver was answered with a success status and a
\* body without an id, or with an empty id.
CreatedWithoutId(f) ==
    /\ resp[f].op = "create"
    /\ resp[f].status \in {200, 201}
    /\ resp[f].body \in {None, ""}

\* C28: after a create answered 200 or 201 without an id, or with an empty
\* id, the driver has returned and made no upload, close or status request.
C28_NoIdIsFailure ==
    \A f \in Files :
        CreatedWithoutId(f) =>
            /\ pc[f] = "returned"
            /\ exc[f] = "none"
            /\ sent[f] = {}
            /\ invoked[f]["upload"] = 0
            /\ invoked[f]["close"] = 0
            /\ invoked[f]["poll"] = 0

\* One create was answered 201 with an empty id and its driver was collected
\* without any further request; the other was answered 200 without an id.
C28_Witness ==
    \E f, g \in Files :
        /\ resp[f] = [op |-> "create", status |-> 201, body |-> ""]
        /\ resp[g] = [op |-> "create", status |-> 200, body |-> None]
        /\ pc[f] = "returned" /\ f \in collected /\ sent[f] = {}
        /\ pc[g] = "returned"


\* C27: when convert has finished, every file in the output folder holds at
\* least one data row.
C27_NoHeaderOnlyFile ==
    cpc = "done" => \A n \in 1..Len(fs) : DataRows(n) # << >>


\* f's driver is inside monitor_job's loop.
InLoop(f) == pc[f] \in {"poll", "sleep"}

\* f's driver is over.
Ended(f) == pc[f] \in {"returned", "raised"}

\* C24: under fair scheduling, if no job's driver stays in the polling loop
\* forever (each loop is ended by a terminal state or a failed response),
\* then the driver of every submitted file ends and execute_bulk_ingest
\* returns.
C24_TerminatesUnlessStuck ==
    (\A f \in Files : []<>(~InLoop(f))) =>
        /\ <>(callerPc = "returned")
        /\ \A g \in Files : (pc[g] # "unsubmitted") ~> Ended(g)

\* The call has returned after more files than threads, one of them polled
\* more than once.
C24_Witness ==
    /\ callerPc = "returned"
    /\ Len(csv_files) > max_concurrent_jobs
    /\ \E f \in Files : invoked[f]["poll"] = 2 /\ pc[f] = "returned"
    /\ \A f \in Files : Ended(f)

\* C25: let S be a set of fewer than max_concurrent_jobs files, outside of
\* which no driver stays in the polling loop forever.  Then under fair
\* scheduling every submitted file outside S is started and its driver ends,
\* whether it was submitted before or after the files of S.
C25_StuckBlocksOwnSlotOnly ==
    \A S \in SUBSET Files :
        ( /\ Cardinality(S) < max_concurrent_jobs
          /\ \A f \in Files \ S : []<>(~InLoop(f)) )
        => \A g \in Files \ S :
              /\ (pc[g] = "queued") ~> (pc[g] # "queued")
              /\ (pc[g] # "unsubmitted") ~> Ended(g)

\* The first file's driver is still polling after more than one poll, while
\* the driver of a file submitted after it has ended and was collected.
C25_Witness ==
    /\ max_concurrent_jobs = 2
    /\ Len(csv_files) >= 2
    /\ InLoop(csv_files[1])
    /\ invoked[csv_files[1]]["poll"] = 2
    /\ Ended(csv_files[2])
    /\ invoked[csv_files[2]]["create"] = 1
    /\ csv_files[2] \in collected


(***************************************************************************)
(* ConfigManager: the per-org configuration (utils/config_manager.py) and  *)
(* OrgDetails (models/org_config.py).                                      *)
(*                                                                         *)
(* A Python object and a JSON dict are records; an attribute that is None  *)
(* and a key that is absent are fields missing from the record.            *)
(***************************************************************************)
MaxClock == 3

Usernames == {"a@x.org", "b@x.org"}

\* _sanitize_username: the org directory name of a username.
sanitize_username(username) ==
    IF username = "a@x.org" THEN "a_at_x_dot_org" ELSE "b_at_x_dot_org"

\* datetime.isoformat() of the clock values, and datetime.fromisoformat.
IsoStrings ==
    <<"2026-01-01T00:00:01", "2026-01-01T00:00:02", "2026-01-01T00:00:03",
      "2026-01-01T00:00:04", "2026-01-01T00:00:05">>
isoformat(t) == IsoStrings[t]
fromisoformat(str) == CHOOSE t \in 1..Len(IsoStrings) : IsoStrings[t] = str

PageLimits == {100, 50}
MaxJobs == {5, 2}

\* CrawlerDefaults and IngestorDefaults objects.
CrawlerObjects == [cls : {"CrawlerDefaults"}, page_limit : PageLimits]
IngestorObjects == [cls : {"IngestorDefaults"}, max_concurrent_jobs : MaxJobs]

\* r with field k set to v, whether or not r has it.
With(r, k, v) == [x \in DOMAIN r \cup {k} |-> IF x = k THEN v ELSE r[x]]

\* r without its field k.
Without(r, k) == [x \in DOMAIN r \ {k} |-> r[x]]

\* CrawlerDefaults.to_dict / IngestorDefaults.to_dict, and the constructor
\* call CrawlerDefaults(**data) / IngestorDefaults(**data).
settings_to_dict(obj) == Without(obj, "cls")
CrawlerFromDict(data) == With(data, "cls", "CrawlerDefaults")
IngestorFromDict(data) == With(data, "cls", "IngestorDefaults")

\* OrgDetails.to_dict (line 58-95): the optional fields are written only
\* when they are set.
to_dict(obj) ==
    LET base == [username |-> obj.username]
        u == IF "updated_at" \in DOMAIN obj
             THEN With(base, "updated_at", isoformat(obj.updated_at)) ELSE base
        c == IF "crawler" \in DOMAIN obj
             THEN With(u, "crawler", settings_to_dict(obj.crawler)) ELSE u
    IN  IF "ingestor" \in DOMAIN obj
        THEN With(c, "ingestor", settings_to_dict(obj.ingestor)) ELSE c

\* OrgDetails.from_dict (line 26-55).
from_dict(data) ==
    LET base == [username |-> data.username]
        u == IF "updated_at" \in DOMAIN data
             THEN With(base, "updated_at", fromisoformat(data.updated_at)) ELSE base
        c == IF "crawler" \in DOMAIN data
             THEN With(u, "crawler", CrawlerFromDict(data.crawler)) ELSE u
    IN  IF "ingestor" \in DOMAIN data
        THEN With(c, "ingestor", IngestorFromDict(data.ingestor)) ELSE c

\* OrgDetails(username=username, instance_url='', login_url='', org_id='')
BlankOrgDetails(username) == [username |-> username]

\* OrgDetails objects a caller can hold.
OrgDetailsObjects(username) ==
    {BlankOrgDetails(username)}
    \cup {With(BlankOrgDetails(username), "crawler", c) : c \in CrawlerObjects}
    \cup {With(BlankOrgDetails(username), "ingestor", i) : i \in IngestorObjects}
    \cup {With(With(BlankOrgDetails(username), "crawler", c), "ingestor", i) :
             c \in CrawlerObjects, i \in IngestorObjects}

\* config_path.exists()
Exists(files, username) == sanitize_username(username) \in DOMAIN files

\* _save_json(config_path, data)
save_json(files, username, data) ==
    With(files, sanitize_username(username), data)

\* get_org_config (line 97-100).
get_org_config(files, username) ==
    IF Exists(files, username)
    THEN from_dict(files[sanitize_username(username)])
    ELSE BlankOrgDetails(username)

\* set_org_config (line 90-95): the files after the call made at time t.
\* The config argument is not read.
set_org_config(files, username, config, t) ==
    LET existing_config == IF Exists(files, username)
                           THEN from_dict(files[sanitize_username(username)])
                           ELSE BlankOrgDetails(username)
    IN  save_json(files, username,
                  to_dict(With(existing_config, "updated_at", t)))

\* The step every caller of set_org_config takes.
CallSetOrgConfig(username, config) ==
    /\ now < MaxClock
    /\ now' = now + 1
    /\ org_files' = set_org_config(org_files, username, config, now + 1)
    /\ last_call' = [op |-> "set_org_config", username |-> username,
                     config |-> config]
    /\ UNCHANGED nonConfigVars

\* init_org (line 58-83): writes org_details.to_dict() to config.json.
InitOrg(username) ==
    /\ \E org_details \in OrgDetailsObjects(username) :
          org_files' = save_json(org_files, username, to_dict(org_details))
    /\ last_call' = [op |-> "init_org", username |-> username]
    /\ UNCHANGED <<now, nonConfigVars>>

\* set_org_config called with an OrgDetails object of the caller's.
SetOrgConfig(username) ==
    \E config \in OrgDetailsObjects(username) :
        CallSetOrgConfig(username, config)

\* main.py set_crawler (line 412-436) with --page-limit: read the org's
\* config, create the crawler section if missing, set the value, save.
SetCrawler(username) ==
    \E page_limit \in PageLimits :
        LET config == get_org_config(org_files, username)
            crawler == IF "crawler" \in DOMAIN config
                       THEN config.crawler
                       ELSE [cls |-> "CrawlerDefaults", page_limit |-> 100]
        IN  CallSetOrgConfig(username,
                With(config, "crawler", With(crawler, "page_limit", page_limit)))

\* set_org_setting(username, 'ingestor', 'max_concurrent_jobs', value)
\* (line 214-237).
SetOrgSetting(username) ==
    \E value \in MaxJobs :
        LET org_config == get_org_config(org_files, username)
            ingestor == IF "ingestor" \in DOMAIN org_config
                        THEN org_config.ingestor
                        ELSE [cls |-> "IngestorDefaults", max_concurrent_jobs |-> 5]
        IN  CallSetOrgConfig(username,
                With(org_config, "ingestor",
                     With(ingestor, "max_concurrent_jobs", value)))

InitConfig ==
    /\ IngestIdle
    /\ ConvertIdle
    /\ CleanIdle
    /\ SanitizeIdle
    /\ org_files = NoFiles
    /\ now = 0
    /\ last_call = NoCall

NextConfig ==
    \/ \E username \in Usernames : InitOrg(username)
    \/ \E username \in Usernames : SetOrgConfig(username)
    \/ \E username \in Usernames : SetCrawler(username)
    \/ \E username \in Usernames : SetOrgSetting(username)

SpecConfig == InitConfig /\ [][NextConfig]_vars

\* Objects a and b agree on attribute k (both None, or both set and equal).
SameAttr(a, b, k) ==
    /\ (k \in DOMAIN a) = (k \in DOMAIN b)
    /\ k \in DOMAIN a => a[k] = b[k]

\* C30: right after set_org_config(username, config), get_org_config(username)
\* has the crawler and the ingestor settings of config.
C30_SetThenGet ==
    last_call.op = "set_org_config" =>
        LET got == get_org_config(org_files, last_call.username)
        IN  /\ SameAttr(got, last_call.config, "crawler")
            /\ SameAttr(got, last_call.config, "ingestor")


(***************************************************************************)
(* JSONToCSVConverter.clean_html on a string: what it computes.            *)
(*                                                                         *)
(* A string of markup is the sequence of its tokens: start tags, end tags, *)
(* runs of text, comments.  A parsed tree is the sequence of its nodes in  *)
(* document order, each element being its start tag, its children and its  *)
(* end tag; re-parenting the children of a dropped element is then the     *)
(* removal of its two tags.                                                *)
(***************************************************************************)
MaxTokens == 4

\* k: "open", "close", "text" or "comment".  v: the tag name or the text.
\* x: for a start tag, whether it carries attributes; for an end tag,
\* whether white space precedes its ">" ("</script >"); for text, whether
\* it was read as the raw content of a script or style element.
Tok(k, v, x) == [k |-> k, v |-> v, x |-> x]

\* The tokens the input strings are built from: <p class="c">, </p>,
\* <div>, </div>, <script>, </script>, </script >, the text "a", a line
\* break, the comment <!--c-->.
InputTokens ==
    {Tok("open", "p", TRUE), Tok("close", "p", FALSE),
     Tok("open", "div", FALSE), Tok("close", "div", FALSE),
     Tok("open", "script", FALSE), Tok("close", "script", FALSE),
     Tok("close", "script", TRUE),
     Tok("text", "a", FALSE), Tok("text", "\n", FALSE),
     Tok("comment", "c", FALSE)}

Strings == UNION {[1..n -> InputTokens] : n \in 0..MaxTokens}

Whitespace == {" ", "\n"}

\* tag.get_text(strip=True) is not empty: some text is not white space.
HasText(toks) ==
    \E i \in 1..Len(toks) : toks[i].k = "text" /\ toks[i].v \notin Whitespace

\* Line 31: re.sub(r'<(script|style)[^>]*>.*?</\1>', '', content): from a
\* script or style start tag up to the first "</script>" resp. "</style>"
\* after it, everything is removed; a start tag that no such end tag follows
\* stays.
RECURSIVE re_sub_script(_, _)
re_sub_script(toks, i) ==
    IF i > Len(toks) THEN << >>
    ELSE LET t == toks[i]
             ends == {j \in (i + 1)..Len(toks) :
                         toks[j] = Tok("close", t.v, FALSE)}
         IN  IF t.k = "open" /\ t.v \in {"script", "style"} /\ ends # {}
             THEN re_sub_script(toks, (CHOOSE j \in ends : \A m \in ends : j <= m) + 1)
             ELSE <<t>> \o re_sub_script(toks, i + 1)

\* The end tags that close the elements of a stack of open elements, the
\* innermost (last) first.
RECURSIVE EndTags(_)
EndTags(stack) ==
    IF stack = << >> THEN << >>
    ELSE <<Tok("close", stack[Len(stack)], FALSE)>>
         \o EndTags(SubSeq(stack, 1, Len(stack) - 1))

\* What html.parser hands over for a token inside a script or style
\* element: character data.
RawData(t) ==
    IF t.k = "text" THEN Tok("text", t.v, TRUE) ELSE Tok("text", "<markup>", TRUE)

RECURSIVE RawDataOf(_)
RawDataOf(toks) ==
    IF toks = << >> THEN << >> ELSE <<RawData(Head(toks))>> \o RawDataOf(Tail(toks))

\* Line 34: BeautifulSoup(content, "html.parser").  A start tag opens an
\* element; an end tag closes the innermost open element of its name and
\* everything opened inside it, and is ignored when no such element is open;
\* inside a script or style element everything up to its end tag is
\* character data; at the end of the input every open element is closed.
\* The content of a script element that is never closed is handed over as
\* data or dropped, depending on the version of html.parser (flush).
RECURSIVE ParseFrom(_, _, _, _)
ParseFrom(toks, i, stack, flush) ==
    IF i > Len(toks) THEN EndTags(stack)
    ELSE LET t == toks[i] IN
         IF t.k = "open" /\ t.v \in {"script", "style"}
         THEN LET ends == {j \in (i + 1)..Len(toks) :
                              toks[j].k = "close" /\ toks[j].v = t.v}
              IN  IF ends # {}
                  THEN LET j == CHOOSE e \in ends : \A m \in ends : e <= m
                       IN  <<t>> \o RawDataOf(SubSeq(toks, i + 1, j - 1))
                           \o <<Tok("close", t.v, FALSE)>>
                           \o ParseFrom(toks, j + 1, stack, flush)
                  ELSE <<t>>
                       \o (IF flush THEN RawDataOf(SubSeq(toks, i + 1, Len(toks)))
                           ELSE << >>)
                       \o <<Tok("close", t.v, FALSE)>>
                       \o EndTags(stack)
         ELSE IF t.k = "open"
         THEN <<t>> \o ParseFrom(toks, i + 1, Append(stack, t.v), flush)
         ELSE IF t.k = "close"
         THEN LET opened == {n \in 1..Len(stack) : stack[n] = t.v}
              IN  IF opened = {}
                  THEN ParseFrom(toks, i + 1, stack, flush)
                  ELSE LET n == CHOOSE e \in opened : \A m \in opened : m <= e
                       IN  EndTags(SubSeq(stack, n, Len(stack)))
                           \o ParseFrom(toks, i + 1, SubSeq(stack, 1, n - 1), flush)
         ELSE <<t>> \o ParseFrom(toks, i + 1, stack, flush)

\* The index of the end tag of the element that starts at index i of a tree.
RECURSIVE EndOf(_, _, _)
EndOf(tree, j, depth) ==
    IF tree[j].k = "open" THEN EndOf(tree, j + 1, depth + 1)
    ELSE IF tree[j].k = "close"
    THEN IF depth = 1 THEN j ELSE EndOf(tree, j + 1, depth - 1)
    ELSE EndOf(tree, j + 1, depth)

\* Line 64: soup.body if soup.body else soup: the children of the first body
\* element, or of the document when it has none.
start_node(tree) ==
    LET bodies == {i \in 1..Len(tree) : tree[i].k = "open" /\ tree[i].v = "body"}
    IN  IF bodies = {} THEN tree
        ELSE LET b == CHOOSE e \in bodies : \A m \in bodies : e <= m
             IN  SubSeq(tree, b + 1, EndOf(tree, b, 0) - 1)

\* Line 37-38.
allowed_tags ==
    {"h1", "h2", "h3", "h4", "h5", "h6", "p", "ul", "ol", "li", "blockquote",
     "pre", "code"}

\* Mutant: the start tag is copied with its attributes.
new_tagWithAttributes(node) == node

\* Line 52: new_soup.new_tag(node.name): a start tag without attributes.
new_tag(node) == Tok("open", node.v, FALSE)

\* Line 45-61: process_node on the children of the start node, in order.
\* Text is copied; so is a comment, which is a NavigableString too and
\* becomes text; an allowed element is created anew and its children go
\* into it; the children of any other element go to the current parent.
RECURSIVE process_node(_)
process_node(nodes) ==
    IF nodes = << >> THEN << >>
    ELSE LET node == Head(nodes)
             copy == IF node.k \in {"text", "comment"}
                     THEN <<Tok("text", node.v, node.x)>>
                     ELSE IF node.v \notin allowed_tags THEN << >>
                     ELSE IF node.k = "open" THEN <<new_tag(node)>>
                     ELSE <<node>>
         IN  copy \o process_node(Tail(nodes))

\* Line 41-42: new_soup is <body></body> and receives the copies.
new_soup(nodes) ==
    <<Tok("open", "body", FALSE)>> \o nodes \o <<Tok("close", "body", FALSE)>>

\* Line 68-70: every element of new_soup, the body element included, that
\* holds no text other than white space is removed with all it contains.
RECURSIVE decompose_empty(_, _)
decompose_empty(tree, i) ==
    IF i > Len(tree) THEN << >>
    ELSE IF tree[i].k = "open"
            /\ ~HasText(SubSeq(tree, i + 1, EndOf(tree, i, 0) - 1))
    THEN decompose_empty(tree, EndOf(tree, i, 0) + 1)
    ELSE <<tree[i]>> \o decompose_empty(tree, i + 1)

\* Line 73: str(new_soup.body): the body element as markup, or "None" when
\* new_soup has no body element any more.
str_body(tree) ==
    IF tree # << >> /\ tree[1] = Tok("open", "body", FALSE)
    THEN tree
    ELSE <<Tok("text", "None", FALSE)>>

\* Line 76: re.sub(r'\s+', ' ', cleaned_html): a run of white space becomes
\* one blank.
RECURSIVE collapse(_, _)
collapse(toks, afterBlank) ==
    IF toks = << >> THEN << >>
    ELSE IF Head(toks).k = "text" /\ Head(toks).v \in Whitespace
    THEN (IF afterBlank THEN << >> ELSE <<Tok("text", " ", FALSE)>>)
         \o collapse(Tail(toks), TRUE)
    ELSE <<Head(toks)>> \o collapse(Tail(toks), FALSE)

\* Line 76: .strip(): white space at both ends is removed.
RECURSIVE strip(_)
strip(toks) ==
    IF toks = << >> THEN << >>
    ELSE IF Head(toks).k = "text" /\ Head(toks).v \in Whitespace
    THEN strip(Tail(toks))
    ELSE IF toks[Len(toks)].k = "text" /\ toks[Len(toks)].v \in Whitespace
    THEN strip(SubSeq(toks, 1, Len(toks) - 1))
    ELSE toks

\* Line 25-27: if not content: return ""
SanitizeEnter ==
    /\ spc = "call"
    /\ IF work = << >>
       THEN spc' = "returned" /\ outs' = Append(outs, << >>)
       ELSE spc' = "resub" /\ outs' = outs
    /\ UNCHANGED <<html, work, nonSanitizeVars>>

\* Line 31.
SanitizeReSub ==
    /\ spc = "resub"
    /\ work' = re_sub_script(work, 1)
    /\ spc' = "parse"
    /\ UNCHANGED <<html, outs, nonSanitizeVars>>

\* Line 34.
SanitizeParse ==
    /\ spc = "parse"
    /\ \E flush \in BOOLEAN : work' = ParseFrom(work, 1, << >>, flush)
    /\ spc' = "walk"
    /\ UNCHANGED <<html, outs, nonSanitizeVars>>

\* Line 41-65.
SanitizeWalk ==
    /\ spc = "walk"
    /\ work' = new_soup(process_node(start_node(work)))
    /\ spc' = "prune"
    /\ UNCHANGED <<html, outs, nonSanitizeVars>>

\* Line 68-70.
SanitizePrune ==
    /\ spc = "prune"
    /\ work' = decompose_empty(work, 1)
    /\ spc' = "serialize"
    /\ UNCHANGED <<html, outs, nonSanitizeVars>>

\* Line 73-78.
SanitizeReturn ==
    /\ spc = "serialize"
    /\ outs' = Append(outs, strip(collapse(str_body(work), FALSE)))
    /\ spc' = "returned"
    /\ UNCHANGED <<html, work, nonSanitizeVars>>

\* clean_html is called on the string it has just returned.
SanitizeAgain ==
    /\ spc = "returned"
    /\ Len(outs) = 1
    /\ work' = outs[1]
    /\ spc' = "call"
    /\ UNCHANGED <<html, outs, nonSanitizeVars>>

InitSanitize ==
    /\ IngestIdle
    /\ ConvertIdle
    /\ CleanIdle
    /\ ConfigIdle
    /\ html \in Strings
    /\ work = html
    /\ spc = "call"
    /\ outs = << >>

NextSanitize ==
    \/ SanitizeEnter
    \/ SanitizeReSub
    \/ SanitizeParse
    \/ SanitizeWalk
    \/ SanitizePrune
    \/ SanitizeReturn
    \/ SanitizeAgain

SpecSanitize == InitSanitize /\ [][NextSanitize]_vars


(***************************************************************************)
(* Claims about clean_html.                                                *)
(***************************************************************************)
AllowList ==
    {"h1", "h2", "h3", "h4", "h5", "h6", "p", "ul", "ol", "li", "blockquote",
     "pre", "code"}

IsTag(t) == t.k \in {"open", "close"}

\* The string holds allow-listed tags and plain text only.
AllowListedOnly(toks) ==
    \A i \in 1..Len(toks) :
        \/ toks[i].k = "text"
        \/ IsTag(toks[i]) /\ toks[i].v \in AllowList

\* The texts of a string of markup that are not white space and lie outside
\* script and style elements and comments, in document order.
RECURSIVE TextsOutside(_, _, _)
TextsOutside(toks, i, inside) ==
    IF i > Len(toks) THEN << >>
    ELSE LET t == toks[i] IN
         IF inside # ""
         THEN TextsOutside(toks, i + 1,
                           IF t.k = "close" /\ t.v = inside THEN "" ELSE inside)
         ELSE IF t.k = "open" /\ t.v \in {"script", "style"}
         THEN TextsOutside(toks, i + 1, t.v)
         ELSE IF t.k = "text" /\ t.v \notin Whitespace
         THEN <<t.v>> \o TextsOutside(toks, i + 1, "")
         ELSE TextsOutside(toks, i + 1, "")

\* All texts of a string that are not white space, in order.
RECURSIVE TextsOf(_)
TextsOf(toks) ==
    IF toks = << >> THEN << >>
    ELSE (IF Head(toks).k = "text" /\ Head(toks).v \notin Whitespace
          THEN <<Head(toks).v>> ELSE << >>) \o TextsOf(Tail(toks))

\* a occurs in b as a subsequence.
RECURSIVE IsSubsequence(_, _)
IsSubsequence(a, b) ==
    IF a = << >> THEN TRUE
    ELSE IF b = << >> THEN FALSE
    ELSE IF Head(a) = Head(b) THEN IsSubsequence(Tail(a), Tail(b))
    ELSE IsSubsequence(a, Tail(b))

\* C21: for a string of allow-listed tags and plain text, clean_html applied
\* to the result of clean_html returns that result again.
C21_Idempotent ==
    (Len(outs) = 2 /\ AllowListedOnly(html)) => outs[2] = outs[1]

\* C22: the result holds no tag outside the allow-list other than the
\* enclosing body, every text of the input outside script and style elements
\* and comments occurs in it in document order, and it holds no content of a
\* script or style element.
C22_TextKeptScriptDropped ==
    Len(outs) >= 1 =>
        /\ IsSubsequence(TextsOutside(html, 1, ""), TextsOf(outs[1]))
        /\ \A i \in 1..Len(outs[1]) :
              ~(outs[1][i].k = "text" /\ outs[1][i].x
                /\ outs[1][i].v \notin Whitespace)

\* C23 as stated: every tag in the result is allow-listed and has no
\* attributes.
C23_OnlyAllowListedTags ==
    \A n \in 1..Len(outs) : \A i \in 1..Len(outs[n]) :
        IsTag(outs[n][i]) => outs[n][i].v \in AllowList /\ ~outs[n][i].x

\* C23, amended: a result is the empty string, the text None, or one body
\* element without attributes; every tag inside that body element is
\* allow-listed and has no attributes.
C23_OnlyAllowListedTagsInBody ==
    \A n \in 1..Len(outs) :
        LET out == outs[n] IN
        \/ out = << >>
        \/ out = <<Tok("text", "None", FALSE)>>
        \/ /\ Len(out) >= 2
           /\ out[1] = Tok("open", "body", FALSE)
           /\ out[Len(out)] = Tok("close", "body", FALSE)
           /\ \A i \in 2..(Len(out) - 1) :
                 IsTag(out[i]) => out[i].v \in AllowList /\ ~out[i].x

\* A paragraph with attributes inside a div has been cleaned: the result
\* holds the paragraph without attributes and no div.
C23_Witness ==
    /\ Len(outs) >= 1
    /\ Len(html) >= 1
    /\ html[1] = Tok("open", "div", FALSE)
    /\ \E i \in 1..Len(html) : html[i] = Tok("open", "p", TRUE)
    /\ \E i \in 1..Len(outs[1]) : outs[1][i] = Tok("open", "p", FALSE)
    /\ \A i \in 1..Len(outs[1]) : outs[1][i].v # "div"

\* C29: a non-empty string without text outside script and style elements
\* and comments is cleaned to the empty string.
C29_EmptyWithoutText ==
    (Len(outs) >= 1 /\ html # << >> /\ TextsOutside(html, 1, "") = << >>)
        => outs[1] = << >>

====
